---- MODULE Spec2Model ----
(***************************************************************************)
(* A model of RedditVoteRemover (backend/reddit_remover.py and the         *)
(* stand-alone reddit_vote_remover_simple.py): construction from a cookie  *)
(* string, paginated discovery of voted posts, permalink resolution and    *)
(* the toggle-then-clear mutation loop of remove_votes, run against a      *)
(* remote that answers every request with one of the outcomes the code     *)
(* distinguishes.                                                          *)
(*                                                                         *)
(* Text is modelled as a sequence of one-character strings, a post id as   *)
(* <<prefix, body>> (the prefix "t3_" is the three characters that         *)
(* post_id[3:] strips), a cursor as a sequence of tokens in which "%3D"    *)
(* is the percent-encoded "=".  Python's None for a cursor is the empty    *)
(* sequence: the code only tests cursors for truthiness.                   *)
(***************************************************************************)
EXTENDS Integers, Sequences, FiniteSets, TLC

(***************************************************************************)
(* Bounds of the model.                                                    *)
(***************************************************************************)
MaxPosts == 2          \* distinct post ids the remote can show
MaxCursors == 2        \* distinct cursors the remote can hand out
MaxPageMatches == 2    \* post-id matches in one page body
MaxRequests == 4       \* page requests of one discovery that are explored
MaxResolved == 1       \* post ids with a matching anchor in the re-fetched page
MaxCookieLen == 6      \* characters of a cookie string drawn from CookieAlphabet

(***************************************************************************)
(* Text helpers: str.split, str.strip, str.split(sep, 1).                  *)
(***************************************************************************)
Whitespace == {" "}

HasChar(s, c) == \E k \in DOMAIN s : s[k] = c

FirstIndex(s, c) == CHOOSE k \in DOMAIN s : s[k] = c /\ \A j \in 1..(k - 1) : s[j] # c

RECURSIVE Split(_, _)
Split(s, sep) ==
    IF ~HasChar(s, sep) THEN <<s>>
    ELSE LET k == FirstIndex(s, sep)
         IN  <<SubSeq(s, 1, k - 1)>> \o Split(SubSeq(s, k + 1, Len(s)), sep)

RECURSIVE LStrip(_)
LStrip(s) == IF s # <<>> /\ Head(s) \in Whitespace THEN LStrip(Tail(s)) ELSE s

RECURSIVE RStrip(_)
RStrip(s) ==
    IF s # <<>> /\ s[Len(s)] \in Whitespace THEN RStrip(SubSeq(s, 1, Len(s) - 1)) ELSE s

Strip(s) == RStrip(LStrip(s))

\* a variant that splits at the last separator
SplitFirst_AtLast(s, sep) ==
    LET k == CHOOSE j \in DOMAIN s : s[j] = sep /\ \A m \in (j + 1)..Len(s) : s[m] # sep
    IN  <<SubSeq(s, 1, k - 1), SubSeq(s, k + 1, Len(s))>>

\* str.split(sep, 1) of a string that holds sep
SplitFirst(s, sep) ==
    LET k == FirstIndex(s, sep)
    IN  <<SubSeq(s, 1, k - 1), SubSeq(s, k + 1, Len(s))>>

(***************************************************************************)
(* The session's cookie jar: a sequence of <<name, value>>; setting a name *)
(* that is already there (same domain, same path) replaces it.             *)
(***************************************************************************)
NoValue == <<"<None>">>

JarSet(jar, name, value) ==
    SelectSeq(jar, LAMBDA c : c[1] # name) \o << <<name, value>> >>

JarGet(jar, name) ==
    IF \E k \in DOMAIN jar : jar[k][1] = name
    THEN jar[CHOOSE k \in DOMAIN jar : jar[k][1] = name][2]
    ELSE NoValue

RECURSIVE SetCookiesFrom(_, _)
SetCookiesFrom(jar, segments) ==
    IF segments = <<>> THEN jar
    ELSE LET cookie == Head(segments)
         IN  IF ~HasChar(cookie, "=")
             THEN SetCookiesFrom(jar, Tail(segments))
             ELSE LET kv == SplitFirst(Strip(cookie), "=")
                  IN  SetCookiesFrom(JarSet(jar, Strip(kv[1]), Strip(kv[2])),
                                     Tail(segments))

SetCookies(cookie_string) == SetCookiesFrom(<<>>, Split(cookie_string, ";"))

CsrfName == <<"c", "s", "r", "f", "_", "t", "o", "k", "e", "n">>

\* `not self.csrf_token`: None and the empty string are both falsy
Truthy(v) == v # NoValue /\ v # <<>>

\* "csrf_token=x; a=1"
CookiesWithToken ==
    CsrfName \o <<"=", "x", ";", " ", "a", "=", "1">>

\* "a=1; b=2=2; malformed"
CookiesWithoutToken ==
    <<"a", "=", "1", ";", " ", "b", "=", "2", "=", "2", ";", " ",
      "m", "a", "l", "f", "o", "r", "m", "e", "d">>

\* "a=1; csrf_token"  (the name without "=": skipped)
CookiesTokenNoEquals == <<"a", "=", "1", ";", " ">> \o CsrfName

CookieInputs == {CookiesWithToken, CookiesWithoutToken, CookiesTokenNoEquals}

\* every short cookie string over a name character, "=", ";" and the blank
CookieAlphabet == {"a", "=", ";", " "}

CookieStrings ==
    CookieInputs \cup UNION {[1..n -> CookieAlphabet] : n \in 0..MaxCookieLen}

(***************************************************************************)
(* Post ids, cursors, page bodies and the two pattern extractors.          *)
(***************************************************************************)
Bodies == <<"a", "b", "c", "d">>

Posts == {<<"t3_", Bodies[k]>> : k \in 1..MaxPosts}

NoPost == <<>>

\* post_id[3:]
PostIdShort(post_id) == SubSeq(post_id, 2, Len(post_id))

RawCursorList == << <<"A">>, <<"B", "%3D">>, <<"C">>, <<"D", "%3D">> >>

RawCursors == {RawCursorList[k] : k \in 1..MaxCursors}

NoCursor == <<>>

\* .replace("%3D", "=")
DecodeCursor(raw) == [k \in DOMAIN raw |-> IF raw[k] = "%3D" THEN "=" ELSE raw[k]]

PageKeys == {NoCursor} \cup {DecodeCursor(c) : c \in RawCursors}

\* A page body as the two patterns see it: the POST_ID_PATTERN matches in
\* document order and the AFTER_PATTERN matches (only the first is used).
PageBodies(listed) ==
    [ids : UNION {[1..n -> listed] : n \in 0..MaxPageMatches},
     afters : {<<>>} \cup {<<c>> : c \in RawCursors}]

NoBody == [ids |-> <<>>, afters |-> <<>>]

Unserved == [served |-> FALSE, html |-> NoBody]

\* set(self.POST_ID_PATTERN.findall(html))
ExtractPostIds(html) == {html.ids[k] : k \in DOMAIN html.ids}

\* after_matches[0].replace("%3D", "=") if after_matches else None
ExtractNextAfter(html) ==
    IF html.afters # <<>> THEN DecodeCursor(html.afters[1]) ELSE NoCursor

\* if not next_after or next_after == after or not post_ids: break
StopPaging(next_after, prev_after, page_ids) ==
    next_after = NoCursor \/ next_after = prev_after \/ page_ids = {}

\* all_post_ids.update(post_ids)
Accumulate(all, page_ids) == all \cup page_ids

RECURSIVE FirstSeen(_, _)
\* the order in which discovery meets the ids: the pages in the order they are
\* fetched, the matches of POST_ID_PATTERN.findall in document order
FirstSeen(seen, matches) ==
    IF matches = <<>> THEN seen
    ELSE FirstSeen(IF \E k \in DOMAIN seen : seen[k] = Head(matches)
                   THEN seen ELSE Append(seen, Head(matches)),
                   Tail(matches))

(***************************************************************************)
(* Enumerations and request parameters.                                    *)
(***************************************************************************)
VoteTypes == {"upvoted", "downvoted"}

VoteStates == {"UP", "DOWN", "NONE"}

\* vote_state = VoteState.UP if vote_type == VoteType.UPVOTED else VoteState.DOWN
NominalState(vt) == IF vt = "upvoted" THEN "UP" ELSE "DOWN"

JsonAccept == "application/json"

HtmlAccept == "text/html,application/xhtml+xml,application/xml;q=0.9,*/*;q=0.8"

\* pacing, in tenths of a second
MinDelay == 3

Delays == {1, 5}

Max(a, b) == IF a >= b THEN a ELSE b

\* a variant without the floor
ItemPause_Unclamped(v, d) == d

\* time.sleep(max(0.3, delay)) in the backend, time.sleep(delay) stand-alone
ItemPause(v, d) == IF v = "backend" THEN Max(MinDelay, d) ELSE d

Callbacks == {"None", "callable"}

Variants == {"backend", "simple"}

\* what the listing endpoint can answer
GetFailures == {"http_error", "exception"}

\* what the mutation endpoint can answer: {"data": {"updatePostVoteState":
\* {"ok": true}}}, a body without that acknowledgment, or an exception
\* (timeout, transport error, a body that is not JSON)
VoteOutcomes == {"acknowledged", "unacknowledged", "exception"}

ZeroStats == [total |-> 0, removed |-> 0, failed |-> 0]

NoResult == [total |-> -1, removed |-> -1, failed |-> -1]

NoUrl == <<>>

\* the href of an anchor matched by the permalink pattern, made absolute
Permalink(post_id) == <<"https://www.reddit.com", "/r/sub/comments/">> \o PostIdShort(post_id)

\* f"https://www.reddit.com/comments/{post_id[3:]}"
FallbackUrl(post_id) == <<"https://www.reddit.com/comments/">> \o PostIdShort(post_id)

(***************************************************************************)
(* State.                                                                  *)
(***************************************************************************)
VARIABLES
    variant,            \* which of the two RedditVoteRemover classes this is
    cookie_string,      \* the constructor's argument
    cookies,            \* session.cookies
    csrf_token,         \* self.csrf_token
    accept,             \* session.headers["Accept"]
    original_accept,    \* _get_voted_posts: the saved header
    pc,                 \* where remove_votes is
    vote_type, delay, progress_callback,    \* remove_votes' arguments
    after,              \* _get_voted_posts: the cursor of the next request
    all_post_ids,       \* _get_voted_posts: the accumulated set
    post_ids,           \* remove_votes: what discovery returned
    todo,               \* the elements of post_ids the for loop has yet to yield
    current,            \* the loop's post_id
    i,                  \* the loop's index (enumerate from 1)
    stats,              \* remove_votes: the statistics
    post_url_map,       \* remove_votes: the resolved permalinks
    result,             \* what remove_votes returned
    pages,              \* the remote: the listing pages served in this discovery
    faithful,           \* the remote: whether the listing shows the votes held
    remote_votes,       \* the remote: the vote each post holds
    io,                 \* the requests sent and the pauses taken in this pass
    vote_log,           \* the _vote invocations of this pass and their results
    events,             \* the progress events the callback received in this pass
    cb_raised,          \* the messages at which the callback raised
    repeated,           \* the ids seen on two different pages of the discovery under way
    second_run,         \* how this pass follows one of its vote type that left the listing empty
    first_seen,         \* the ids of the discovery under way or last made, as first met
    data,               \* handle_removal: the start_removal payload
    job_pc,             \* where handle_removal and its background task process() are
    job_result,         \* process: the local `result`
    emitted,            \* what handle_removal and process themselves emitted on the socket
    calls,              \* the remove_votes calls process has made
    passes,             \* what each remove_votes call of process had done when it returned
    pool,               \* concurrent jobs: for each, its payload, its remover and its position
    frames              \* concurrent jobs: the `stats` dict of each job's remove_votes call

vars == <<variant, cookie_string, cookies, csrf_token, accept, original_accept, pc,
          vote_type, delay, progress_callback, after, all_post_ids, post_ids, todo,
          current, i, stats, post_url_map, result, pages, faithful, remote_votes,
          io, vote_log, events, cb_raised, repeated, second_run, first_seen,
          data, job_pc, job_result, emitted, calls, passes, pool, frames>>

pool_vars == <<pool, frames>>

job_vars == <<data, job_pc, job_result, emitted, calls, passes, pool_vars>>

instance_vars == <<variant, cookie_string, cookies, csrf_token>>

argument_vars == <<vote_type, delay, progress_callback>>

remover_vars == <<instance_vars, argument_vars, accept, original_accept, pc, after,
                  all_post_ids, post_ids, todo, current, i, stats, post_url_map, result,
                  pages, faithful, remote_votes, io, vote_log, events, cb_raised, repeated,
                  second_run, first_seen>>

\* delay: the payload has none, or one that float() rejects
NoDelay == -1

\* float(data.get('delay', 0.5)), and 0.5 again on ValueError or TypeError
DefaultDelay == 5

NoRequest == [cookies |-> <<>>, username |-> <<>>, voteType |-> "-", delay |-> NoDelay]

\* result = {}
EmptyDict == [k \in {} |-> 0]

\* dict.get(key, default)
DictGet(d, key, default) == IF key \in DOMAIN d THEN d[key] ELSE default

NoPages == [k \in PageKeys |-> Unserved]

NoMap == [p \in {} |-> NoUrl]

(***************************************************************************)
(* The logs' entries.                                                      *)
(***************************************************************************)
GetEntry(by, url, cursor, outcome, header) ==
    [op |-> "GET", by |-> by, url |-> url, after |-> cursor, post_id |-> NoPost,
     state |-> "-", outcome |-> outcome, accept |-> header, dur |-> 0]

PostEntry(post_id, state, ok, header) ==
    [op |-> "POST", by |-> "_vote", url |-> "graphql", after |-> NoCursor,
     post_id |-> post_id, state |-> state,
     outcome |-> IF ok THEN "acknowledged" ELSE "not acknowledged",
     accept |-> header, dur |-> 0]

SleepEntry(by, dur) ==
    [op |-> "sleep", by |-> by, url |-> "-", after |-> NoCursor, post_id |-> NoPost,
     state |-> "-", outcome |-> "-", accept |-> "-", dur |-> dur]

Event(message, status, st, post_id, url, success, at) ==
    [message |-> message, status |-> status, stats |-> st, post_id |-> post_id,
     url |-> url, success |-> success, at |-> at]

PageRequests == Cardinality({k \in DOMAIN io : io[k].op = "GET" /\ io[k].by = "discovery"})

MutationRequests == {k \in DOMAIN io : io[k].op = "POST"}

PagesServed == {k \in PageKeys : pages[k].served}

\* the posts the remote lists for a vote type, when it is faithful
Listing(vt) == {p \in Posts : remote_votes[p] = NominalState(vt)}

(***************************************************************************)
(* __init__: the state after construction.                                 *)
(***************************************************************************)
\* no remove_votes call has been made yet
NoPassYet(is_faithful) ==
    /\ accept = JsonAccept
    /\ original_accept = JsonAccept
    /\ vote_type = "upvoted" /\ delay = DefaultDelay /\ progress_callback = "None"
    /\ after = NoCursor /\ all_post_ids = {} /\ post_ids = {} /\ todo = {}
    /\ current = NoPost /\ i = 0
    /\ stats = ZeroStats /\ post_url_map = NoMap /\ result = NoResult
    /\ pages = NoPages
    /\ faithful = is_faithful
    /\ remote_votes \in IF is_faithful THEN [Posts -> VoteStates] ELSE {[p \in Posts |-> "NONE"]}
    /\ io = <<>> /\ vote_log = <<>> /\ events = <<>> /\ cb_raised = {}
    /\ repeated = {}
    /\ second_run = "no"
    /\ first_seen = <<>>

\* the class is used directly, not through a start_removal job
NoJob ==
    /\ data = NoRequest
    /\ job_pc = "none"
    /\ job_result = EmptyDict
    /\ emitted = <<>>
    /\ calls = 0
    /\ passes = <<>>
    /\ pool = <<>>
    /\ frames = <<>>

InitRemover(is_faithful) ==
    /\ variant \in Variants
    /\ cookie_string \in CookieInputs
    /\ cookies = SetCookies(cookie_string)
    /\ csrf_token = JarGet(cookies, CsrfName)
    /\ pc = "idle"
    /\ NoPassYet(is_faithful)
    /\ NoJob

Init == InitRemover(FALSE)

InitFaithful == InitRemover(TRUE)

(***************************************************************************)
(* _send_progress.                                                         *)
(***************************************************************************)
Message(kind, idx, total, post_id) ==
    [kind |-> kind, i |-> idx, total |-> total, post_id |-> post_id]

\* whether the callback may raise when invoked
RaiseChoices(callback) == IF callback = "None" THEN {FALSE} ELSE BOOLEAN

\* a variant without the try/except
SendProgressRaises_Uncaught(callback, raises) == callback # "None" /\ raises

\* whether an exception leaves _send_progress: `except Exception: pass`
SendProgressRaises(callback, raises) == FALSE

\* `if not callback: return`, else the callback is invoked with the event
SendProgress(callback, ev, raises) ==
    /\ events' = IF callback = "None" THEN events ELSE Append(events, ev)
    /\ cb_raised' = IF callback # "None" /\ raises
                    THEN cb_raised \cup {ev.message.kind}
                    ELSE cb_raised

\* what a callback that modifies the mapping it is given leaves in it
Tampered(st) == [total |-> 0, removed |-> 0, failed |-> 0]

\* a variant that hands the callback the dict remove_votes counts in
StatsAfterCallback_NoCopy(callback, st) ==
    IF callback = "tampering" THEN Tampered(st) ELSE st

\* the counters of remove_votes once the callback has returned: the callback
\* was given `stats.copy()` or `{**stats, ...}`, a dict of its own
StatsAfterCallback(callback, st) == st

(***************************************************************************)
(* _vote.                                                                 *)
(***************************************************************************)
\* a variant without the token guard
VoteSends_NoGuard(token) == TRUE

\* `if not self.csrf_token: return False` comes before the request
VoteSends(token) == Truthy(token)

\* result.get("data", {}).get("updatePostVoteState", {}).get("ok", False),
\* and False on any exception
VoteReturn(token, outcome) == Truthy(token) /\ outcome = "acknowledged"

OutcomesFor(token) == IF VoteSends(token) THEN VoteOutcomes ELSE {"not sent"}

\* whether the remote has taken the vote: it has when it acknowledges, and a
\* request that ended in a timeout may or may not have reached it
AppliedChoices(outcome) ==
    CASE outcome = "acknowledged" -> {TRUE}
      [] outcome = "exception" -> BOOLEAN
      [] OTHER -> {FALSE}

VoteIo(post_id, state, outcome) ==
    IF VoteSends(csrf_token)
    THEN <<PostEntry(post_id, state, VoteReturn(csrf_token, outcome), accept)>>
    ELSE <<>>

Vote(post_id, state, outcome, applied) ==
    /\ vote_log' = Append(vote_log, [post_id |-> post_id, state |-> state,
                                     sent |-> VoteSends(csrf_token),
                                     ret |-> VoteReturn(csrf_token, outcome)])
    /\ remote_votes' = IF faithful /\ VoteSends(csrf_token) /\ applied
                       THEN [remote_votes EXCEPT ![post_id] = state]
                       ELSE remote_votes

(***************************************************************************)
(* remove_votes is called: the statistics are zeroed and _get_voted_posts  *)
(* starts (empty set, no cursor, the Accept header overridden).            *)
(***************************************************************************)
\* a variant that keeps the set of the previous call
InitialPostIds_Stale(previous) == previous

\* all_post_ids: Set[str] = set()
InitialPostIds(previous) == {}

CallRemoveVotes(vt, d, cb) ==
    /\ pc \in {"idle", "done"}
    /\ vote_type' = vt
    /\ delay' = d
    /\ progress_callback' = IF variant = "backend" THEN cb ELSE "None"
    /\ stats' = ZeroStats
    /\ result' = NoResult
    /\ all_post_ids' = InitialPostIds(all_post_ids)
    /\ after' = NoCursor
    /\ post_ids' = {} /\ todo' = {} /\ current' = NoPost /\ i' = 0
    /\ post_url_map' = NoMap
    /\ original_accept' = accept
    /\ accept' = HtmlAccept
    /\ pages' = NoPages
    /\ io' = <<>> /\ vote_log' = <<>> /\ events' = <<>> /\ cb_raised' = {}
    /\ repeated' = {}
    /\ first_seen' = <<>>
    /\ second_run' = IF pc = "done" /\ vote_type = vt /\ faithful /\ Listing(vt) = {}
                     THEN IF result.total > 0 THEN "after a clearing pass"
                          ELSE "after an empty pass"
                     ELSE "no"
    /\ pc' = "fetch"
    /\ UNCHANGED <<instance_vars, faithful, remote_votes>>

(***************************************************************************)
(* _get_voted_posts: one iteration of the while loop for each answer of    *)
(* the remote, and the return (with the finally clause) when it ends.      *)
(***************************************************************************)
PageUrl(cursor) == IF cursor # NoCursor THEN "more-posts" ELSE "listing"

\* a variant without the finally clause
RestoredAccept_Kept(original, header) == header

\* finally: if original_accept: self.session.headers["Accept"] = original_accept
RestoredAccept(original, header) == IF original # "" THEN original ELSE header

\* return <ids>, then `finally: if original_accept: restore`.  The listing is
\* taken to stand still during one discovery only: what was served is
\* forgotten when discovery returns.
DiscoveryReturns(ids) ==
    /\ post_ids' = ids
    /\ accept' = RestoredAccept(original_accept, accept)
    /\ pc' = "discovered"
    /\ pages' = NoPages

FetchPageOk ==
    /\ pc = "fetch"
    /\ PageRequests < MaxRequests
    /\ \E html \in PageBodies(IF faithful THEN Listing(vote_type) ELSE Posts) :
        /\ pages[after].served => html = pages[after].html
        /\ LET page_ids == ExtractPostIds(html)
               next_after == ExtractNextAfter(html)
               request == GetEntry("discovery", PageUrl(after), after, "ok", accept)
           IN  /\ all_post_ids' = Accumulate(all_post_ids, page_ids)
               /\ first_seen' = FirstSeen(first_seen, html.ids)
               /\ repeated' = repeated \cup
                      {p \in page_ids : \E k \in PagesServed :
                          k # after /\ p \in ExtractPostIds(pages[k].html)}
               /\ IF StopPaging(next_after, after, page_ids)
                  THEN /\ DiscoveryReturns(all_post_ids')
                       /\ io' = Append(io, request)
                       /\ after' = after
                  ELSE /\ after' = next_after
                       /\ pages' = [pages EXCEPT ![after] = [served |-> TRUE, html |-> html]]
                       /\ io' = io \o <<request, SleepEntry("discovery", MinDelay)>>
                       /\ UNCHANGED <<post_ids, accept, pc>>
    /\ UNCHANGED <<job_vars, instance_vars, argument_vars, original_accept, todo, current, i, stats,
                   post_url_map, result, faithful, remote_votes, vote_log, events,
                   cb_raised, second_run>>

\* if response.status_code == 404: return set()
NotFoundResult(accumulated) == {}

FetchPageNotFound ==
    /\ pc = "fetch"
    /\ PageRequests < MaxRequests
    /\ io' = Append(io, GetEntry("discovery", PageUrl(after), after, "not_found", accept))
    /\ DiscoveryReturns(NotFoundResult(all_post_ids))
    /\ UNCHANGED <<job_vars, instance_vars, argument_vars, original_accept, after, all_post_ids, todo,
                   current, i, stats, post_url_map, result, faithful, remote_votes,
                   vote_log, events, cb_raised, repeated, second_run, first_seen>>

\* except Exception: return all_post_ids  (a timeout or transport error of
\* session.get, or raise_for_status on an error status other than 404)
FailureResult(accumulated) == accumulated

FetchPageFails ==
    /\ pc = "fetch"
    /\ PageRequests < MaxRequests
    /\ \E failure \in GetFailures :
        io' = Append(io, GetEntry("discovery", PageUrl(after), after, failure, accept))
    /\ DiscoveryReturns(FailureResult(all_post_ids))
    /\ UNCHANGED <<job_vars, instance_vars, argument_vars, original_accept, after, all_post_ids, todo,
                   current, i, stats, post_url_map, result, faithful, remote_votes,
                   vote_log, events, cb_raised, repeated, second_run, first_seen>>

(***************************************************************************)
(* remove_votes after discovery: the total, then the warning and the       *)
(* return when nothing was found, else the "Processing" event.             *)
(***************************************************************************)
\* a variant without the early return
NothingFound_Never(ids) == FALSE

\* if not post_ids:
NothingFound(ids) == ids = {}

AfterDiscovery ==
    /\ pc = "discovered"
    /\ LET st == [stats EXCEPT !.total = Cardinality(post_ids)]
       IN  /\ stats' = StatsAfterCallback(progress_callback, st)
           /\ \E raises \in RaiseChoices(progress_callback) :
                IF NothingFound(post_ids)
                THEN /\ SendProgress(progress_callback,
                            Event(Message("No posts found", 0, 0, NoPost), "warning", st,
                                  NoPost, NoUrl, "-", Len(io)), raises)
                     /\ IF SendProgressRaises(progress_callback, raises)
                        THEN pc' = "raised" /\ result' = result
                        ELSE pc' = "done" /\ result' = stats'
                ELSE /\ SendProgress(progress_callback,
                            Event(Message("Processing", 0, Cardinality(post_ids), NoPost),
                                  "info", st, NoPost, NoUrl, "-", Len(io)), raises)
                     /\ pc' = IF SendProgressRaises(progress_callback, raises) THEN "raised"
                              ELSE IF variant = "backend" THEN "resolve"
                              ELSE "vote_nominal"
                     /\ result' = result
    /\ todo' = post_ids
    /\ repeated' = {}
    /\ UNCHANGED <<job_vars, instance_vars, argument_vars, accept, original_accept, after, all_post_ids,
                   post_ids, current, i, post_url_map, pages, faithful, remote_votes, io,
                   vote_log, second_run, first_seen>>

(***************************************************************************)
(* remove_votes: the permalink pass (backend only).  Whatever goes wrong   *)
(* in it is swallowed and leaves post_url_map empty.                       *)
(***************************************************************************)
ResolvePermalinks ==
    /\ pc = "resolve"
    /\ \/ \E failure \in {"exception", "not_200"} :
            /\ io' = Append(io, GetEntry("resolver", "listing", NoCursor, failure, accept))
            /\ post_url_map' = NoMap
       \/ \E matched \in SUBSET post_ids :
            /\ Cardinality(matched) <= MaxResolved
            /\ io' = Append(io, GetEntry("resolver", "listing", NoCursor, "ok", accept))
            /\ post_url_map' = [p \in matched |-> Permalink(p)]
    /\ pc' = "vote_nominal"
    /\ UNCHANGED <<job_vars, instance_vars, argument_vars, accept, original_accept, after, all_post_ids,
                   post_ids, todo, current, i, stats, result, pages, faithful, remote_votes,
                   vote_log, events, cb_raised, repeated, second_run, first_seen>>

(***************************************************************************)
(* remove_votes: the loop.  The for statement yields the elements of the   *)
(* set in an order the code does not control.                              *)
(***************************************************************************)
\* a variant whose loop may yield an element again
NextItems_Again(remaining) == post_ids

\* the element the for loop may yield next
NextItems(remaining) == remaining

VoteNominal ==
    /\ pc = "vote_nominal"
    /\ \E p \in NextItems(todo) :
       \E outcome \in OutcomesFor(csrf_token) :
       \E applied \in AppliedChoices(outcome) :
        /\ current' = p
        /\ i' = i + 1
        /\ todo' = todo \ {p}
        /\ Vote(p, NominalState(vote_type), outcome, applied)
        /\ io' = io \o VoteIo(p, NominalState(vote_type), outcome)
                    \o <<SleepEntry("remove_votes", MinDelay)>>
    /\ pc' = "vote_clear"
    /\ UNCHANGED <<job_vars, instance_vars, argument_vars, accept, original_accept, after, all_post_ids,
                   post_ids, stats, post_url_map, result, pages, faithful, events, cb_raised,
                   repeated, second_run, first_seen>>

\* a variant that leaves failures uncounted
CountItem_ForgetsFailed(st, first_ok, clear_ok) ==
    IF clear_ok THEN [st EXCEPT !.removed = @ + 1] ELSE st

\* a variant that counts a removal only when both calls were acknowledged
CountItem_NeedsBothCalls(st, first_ok, clear_ok) ==
    IF first_ok /\ clear_ok
    THEN [st EXCEPT !.removed = @ + 1]
    ELSE [st EXCEPT !.failed = @ + 1]

\* stats["removed"] += 1 if the clear call returned True, else stats["failed"] += 1
CountItem(st, first_ok, clear_ok) ==
    IF clear_ok
    THEN [st EXCEPT !.removed = @ + 1]
    ELSE [st EXCEPT !.failed = @ + 1]

\* a variant without the default
ItemUrl_NoFallback(url_map, post_id) ==
    IF post_id \in DOMAIN url_map THEN url_map[post_id] ELSE NoUrl

\* post_url_map.get(post_id, f"https://www.reddit.com/comments/{post_id[3:]}")
ItemUrl(url_map, post_id) ==
    IF post_id \in DOMAIN url_map THEN url_map[post_id] ELSE FallbackUrl(post_id)

\* if i < stats["total"]: time.sleep(...)
PauseAfterItem(idx, total) == idx < total

\* a variant that leaves the loop at the first failed item
LoopExhausted_StopsOnFailure(remaining, clear_ok) == remaining = {} \/ ~clear_ok

\* the for loop ends when the set is exhausted, whatever the item's outcome
LoopExhausted(remaining, clear_ok) == remaining = {}

VoteClear ==
    /\ pc = "vote_clear"
    /\ \E outcome \in OutcomesFor(csrf_token) :
       \E applied \in AppliedChoices(outcome) :
       \E raises \in RaiseChoices(progress_callback) :
        LET ok == VoteReturn(csrf_token, outcome)
            st == CountItem(stats, vote_log[Len(vote_log)].ret, ok)
            sent_io == io \o VoteIo(current, "NONE", outcome)
            ev == Event(Message(IF ok THEN "ok" ELSE "failed", i, st.total, current),
                        IF ok THEN "success" ELSE "error", st, current,
                        ItemUrl(post_url_map, current),
                        IF ok THEN "True" ELSE "False", Len(sent_io))
        IN  /\ Vote(current, "NONE", outcome, applied)
            /\ stats' = StatsAfterCallback(progress_callback, st)
            /\ SendProgress(progress_callback, ev, raises)
            /\ IF SendProgressRaises(progress_callback, raises)
               THEN /\ pc' = "raised"
                    /\ io' = sent_io
               ELSE /\ io' = sent_io \o
                             IF PauseAfterItem(i, stats'.total)
                             THEN <<SleepEntry("remove_votes", ItemPause(variant, delay))>>
                             ELSE <<>>
                    /\ pc' = IF LoopExhausted(todo, ok) THEN "finish" ELSE "vote_nominal"
    /\ UNCHANGED <<job_vars, instance_vars, argument_vars, accept, original_accept, after, all_post_ids,
                   post_ids, todo, current, i, post_url_map, result, pages, faithful,
                   repeated, second_run, first_seen>>

(***************************************************************************)
(* remove_votes: the final summary event and the return.                   *)
(***************************************************************************)
Finish ==
    /\ pc = "finish"
    /\ \E raises \in RaiseChoices(progress_callback) :
        /\ SendProgress(progress_callback,
                Event(Message("Finished", 0, 0, NoPost), "success", stats, NoPost, NoUrl,
                      "-", Len(io)), raises)
        /\ stats' = StatsAfterCallback(progress_callback, stats)
        /\ IF SendProgressRaises(progress_callback, raises)
           THEN pc' = "raised" /\ result' = result
           ELSE pc' = "done" /\ result' = stats'
    /\ UNCHANGED <<job_vars, instance_vars, argument_vars, accept, original_accept, after, all_post_ids,
                   post_ids, todo, current, i, post_url_map, pages, faithful,
                   remote_votes, io, vote_log, repeated, second_run, first_seen>>

Next ==
    \/ \E vt \in VoteTypes, d \in Delays, cb \in Callbacks :
          CallRemoveVotes(vt, d, cb) /\ UNCHANGED job_vars
    \/ FetchPageOk
    \/ FetchPageNotFound
    \/ FetchPageFails
    \/ AfterDiscovery
    \/ ResolvePermalinks
    \/ VoteNominal
    \/ VoteClear
    \/ Finish

Spec == Init /\ [][Next]_vars

\* the same program against a remote whose listing shows the votes held
SpecFaithful == InitFaithful /\ [][Next]_vars

(***************************************************************************)
(* remove_votes of the backend under a progress callback that may write    *)
(* into the mapping it is handed (`stats["removed"] = 0` and the like).    *)
(***************************************************************************)
\* the callbacks of this specification: one that only reads the mapping,
\* one that modifies it at every invocation
WritingCallbacks == {"callable", "tampering"}

InitSnapshots == Init /\ variant = "backend"

NextSnapshots ==
    \/ \E vt \in VoteTypes, d \in Delays, cb \in WritingCallbacks :
          CallRemoveVotes(vt, d, cb) /\ UNCHANGED job_vars
    \/ FetchPageOk
    \/ FetchPageNotFound
    \/ FetchPageFails
    \/ AfterDiscovery
    \/ ResolvePermalinks
    \/ VoteNominal
    \/ VoteClear
    \/ Finish

SpecSnapshots == InitSnapshots /\ [][NextSnapshots]_vars

(***************************************************************************)
(* The constructor alone, on every cookie string of CookieStrings.         *)
(***************************************************************************)
InitCookies ==
    /\ variant \in Variants
    /\ cookie_string \in CookieStrings
    /\ cookies = <<>>
    /\ csrf_token = NoValue
    /\ pc = "constructing"
    /\ NoPassYet(FALSE)
    /\ NoJob

\* __init__: self._set_cookies(cookie_string);
\* self.csrf_token = self.session.cookies.get("csrf_token")
Construct ==
    /\ pc = "constructing"
    /\ cookies' = SetCookies(cookie_string)
    /\ csrf_token' = JarGet(cookies', CsrfName)
    /\ pc' = "idle"
    /\ UNCHANGED <<job_vars, variant, cookie_string, argument_vars, accept, original_accept,
                   after, all_post_ids, post_ids, todo, current, i, stats, post_url_map,
                   result, pages, faithful, remote_votes, io, vote_log, events, cb_raised,
                   repeated, second_run, first_seen>>

NextCookies == Construct

SpecCookies == InitCookies /\ [][NextCookies]_vars

(***************************************************************************)
(* The start_removal job of the web backend: handle_removal validates the  *)
(* payload and starts process() as a background task; process builds one   *)
(* RedditVoteRemover and calls remove_votes for the selected vote types.   *)
(***************************************************************************)
\* voteType: the three values the code tests for, and one it does not
Selectors == {"upvotes", "downvotes", "both", "all"}

ParseDelay(v) == IF v = NoDelay THEN DefaultDelay ELSE v

RECURSIVE RemoveAll(_, _)
\* str.replace(pat, '')
RemoveAll(s, pat) ==
    IF Len(s) < Len(pat) THEN s
    ELSE IF SubSeq(s, 1, Len(pat)) = pat
         THEN RemoveAll(SubSeq(s, Len(pat) + 1, Len(s)), pat)
         ELSE <<s[1]>> \o RemoveAll(Tail(s), pat)

CookiePayloads == {<<" ">>, CookiesWithToken, CookiesWithoutToken}

UsernamePayloads == {<<>>, <<"u", "/">>, <<" ", "u", "/", "a">>}

Payloads == [cookies : CookiePayloads, username : UsernamePayloads,
             voteType : Selectors, delay : {NoDelay}]

\* handle_removal's locals
JobCookies == Strip(data.cookies)

JobUsername == RemoveAll(Strip(data.username), <<"u", "/">>)

JobVoteType == data.voteType

JobDelay == ParseDelay(data.delay)

\* if not cookies or not username:
Rejected(c, u) == c = <<>> \/ u = <<>>

SocketEvent(name, message, st) == [event |-> name, message |-> message, stats |-> st]

MissingFields == "Missing required fields: cookies and username"

GenericError == "An error occurred during removal"

\* {"total": result.get("total", 0), "removed": ..., "failed": ...}
FinalStats(res) ==
    [total |-> DictGet(res, "total", 0), removed |-> DictGet(res, "removed", 0),
     failed |-> DictGet(res, "failed", 0)]

InitJob ==
    /\ data \in Payloads
    /\ job_pc = "received"
    /\ job_result = EmptyDict
    /\ emitted = <<>>
    /\ calls = 0
    /\ passes = <<>>
    /\ pool = <<>>
    /\ frames = <<>>
    /\ variant = "backend"
    /\ cookie_string = <<>> /\ cookies = <<>> /\ csrf_token = NoValue
    /\ pc = "idle"
    /\ NoPassYet(FALSE)

HandleRemoval ==
    /\ job_pc = "received"
    /\ IF Rejected(JobCookies, JobUsername)
       THEN /\ emitted' = Append(emitted, SocketEvent("error", MissingFields, ZeroStats))
            /\ job_pc' = "rejected"
       ELSE /\ emitted' = emitted
            /\ job_pc' = "started"
    /\ UNCHANGED <<pool_vars, data, job_result, calls, passes, remover_vars>>

\* remover = RedditVoteRemover(cookies); result = {}
ProcessConstructs ==
    /\ job_pc = "started"
    /\ cookie_string' = JobCookies
    /\ cookies' = SetCookies(JobCookies)
    /\ csrf_token' = JarGet(cookies', CsrfName)
    /\ job_result' = EmptyDict
    /\ job_pc' = "constructed"
    /\ UNCHANGED <<pool_vars, data, emitted, calls, passes, variant, argument_vars, accept,
                   original_accept, pc, after, all_post_ids, post_ids, todo, current, i,
                   stats, post_url_map, result, pages, faithful, remote_votes, io,
                   vote_log, events, cb_raised, repeated, second_run, first_seen>>

\* a variant that adds the statistics of the two passes up
KeepResult_Sums(previous, returned) ==
    IF previous = EmptyDict THEN returned
    ELSE [k \in DOMAIN returned |-> previous[k] + returned[k]]

\* result = remover.remove_votes(...): the name is bound to what the call returned
KeepResult(previous, returned) == returned

\* what a pass had done when remove_votes returned
PassDone ==
    [vote_type |-> vote_type, result |-> result, votes |-> Len(vote_log),
     last_event |-> IF events = <<>> THEN "-" ELSE events[Len(events)].message.kind]

\* remove_votes has returned to process(): its frame is gone, and the pass's
\* logs are closed
PassReturns ==
    /\ pc = "done"
    /\ pc' = "idle"
    /\ vote_type' = "upvoted" /\ delay' = DefaultDelay /\ progress_callback' = "None"
    /\ after' = NoCursor /\ all_post_ids' = {} /\ post_ids' = {} /\ todo' = {}
    /\ current' = NoPost /\ i' = 0
    /\ stats' = ZeroStats /\ post_url_map' = NoMap /\ result' = NoResult
    /\ io' = <<>> /\ vote_log' = <<>> /\ events' = <<>> /\ cb_raised' = {}
    /\ UNCHANGED <<instance_vars, accept, original_accept, pages, faithful, remote_votes,
                   repeated, second_run>>
    /\ first_seen' = <<>>

\* if vote_type in ['upvotes', 'both']: result = remover.remove_votes(UPVOTED, ...)
CallUpvoted ==
    /\ job_pc = "constructed"
    /\ IF JobVoteType \in {"upvotes", "both"}
       THEN /\ CallRemoveVotes("upvoted", JobDelay, "callable")
            /\ calls' = calls + 1
            /\ job_pc' = "upvoted"
       ELSE /\ job_pc' = "between"
            /\ UNCHANGED <<calls, remover_vars>>
    /\ UNCHANGED <<pool_vars, data, job_result, emitted, passes>>

UpvotedReturns ==
    /\ job_pc = "upvoted"
    /\ PassReturns
    /\ job_result' = KeepResult(job_result, result)
    /\ passes' = Append(passes, PassDone)
    /\ job_pc' = "between"
    /\ UNCHANGED <<pool_vars, data, emitted, calls>>

\* if vote_type in ['downvotes', 'both']: result = remover.remove_votes(DOWNVOTED, ...)
CallDownvoted ==
    /\ job_pc = "between"
    /\ IF JobVoteType \in {"downvotes", "both"}
       THEN /\ CallRemoveVotes("downvoted", JobDelay, "callable")
            /\ calls' = calls + 1
            /\ job_pc' = "downvoted"
       ELSE /\ job_pc' = "summary"
            /\ UNCHANGED <<calls, remover_vars>>
    /\ UNCHANGED <<pool_vars, data, job_result, emitted, passes>>

DownvotedReturns ==
    /\ job_pc = "downvoted"
    /\ PassReturns
    /\ job_result' = KeepResult(job_result, result)
    /\ passes' = Append(passes, PassDone)
    /\ job_pc' = "summary"
    /\ UNCHANGED <<pool_vars, data, emitted, calls>>

\* a variant whose except clause emits nothing
ExceptEmits_Nothing(raised) == <<>>

\* except Exception as e: app.logger.error(...); socketio.emit('error', {...})
ExceptEmits(raised) ==
    IF raised THEN <<SocketEvent("error", GenericError, ZeroStats)>> ELSE <<>>

\* socketio.emit(name, ...), which may raise; what raises in the try block
\* ends process() in the except clause
Emit(ev, raises, then) ==
    /\ emitted' = emitted \o (IF raises THEN <<>> ELSE <<ev>>) \o ExceptEmits(raises)
    /\ job_pc' = IF raises THEN "ended" ELSE then

\* final_stats = {...}; send_progress("All done!", "success", final_stats)
SendSummary ==
    /\ job_pc = "summary"
    /\ \E raises \in BOOLEAN :
         Emit(SocketEvent("progress", "All done", FinalStats(job_result)), raises, "complete")
    /\ UNCHANGED <<pool_vars, data, job_result, calls, passes, remover_vars>>

\* socketio.emit('complete', {'stats': final_stats})
EmitComplete ==
    /\ job_pc = "complete"
    /\ \E raises \in BOOLEAN :
         Emit(SocketEvent("complete", "-", FinalStats(job_result)), raises, "ended")
    /\ UNCHANGED <<pool_vars, data, job_result, calls, passes, remover_vars>>

NextJob ==
    \/ HandleRemoval
    \/ ProcessConstructs
    \/ CallUpvoted
    \/ UpvotedReturns
    \/ CallDownvoted
    \/ DownvotedReturns
    \/ SendSummary
    \/ EmitComplete
    \/ FetchPageOk
    \/ FetchPageNotFound
    \/ FetchPageFails
    \/ AfterDiscovery
    \/ ResolvePermalinks
    \/ VoteNominal
    \/ VoteClear
    \/ Finish

\* one start_removal request and the job it starts
SpecJob == InitJob /\ [][NextJob]_vars

(***************************************************************************)
(* Concurrent jobs: every accepted start_removal request starts its own    *)
(* process() as a background task (a greenlet, which yields at I/O), with  *)
(* its own RedditVoteRemover (its own session and token) and, in each      *)
(* remove_votes call, its own `stats` dict.  The jobs are taken at the     *)
(* grain of the calls that count: discovery as a whole, each mutation      *)
(* call, each socket emit of process().                                    *)
(***************************************************************************)
JobIds == {1, 2}

\* a job of one pass and a job of two
PoolSelectors == {"downvotes", "both"}

\* a job whose process() has built its remover:
\* remover = RedditVoteRemover(cookies); result = {}
PoolJob(c, v) ==
    [cookies |-> c, voteType |-> v,
     csrf_token |-> JarGet(SetCookies(Strip(c)), CsrfName), pc |-> "upvotes?",
     vote_type |-> "-", todo |-> {}, current |-> NoPost, first_ok |-> FALSE,
     own |-> ZeroStats, returned |-> ZeroStats, result |-> EmptyDict, emitted |-> <<>>]

InitPool ==
    /\ pool \in [JobIds -> {PoolJob(c, v) : c \in {CookiesWithToken, CookiesWithoutToken},
                                            v \in PoolSelectors}]
    /\ frames = [j \in JobIds |-> ZeroStats]
    /\ data = NoRequest /\ job_pc = "none" /\ job_result = EmptyDict
    /\ emitted = <<>> /\ calls = 0 /\ passes = <<>>
    /\ variant = "backend"
    /\ cookie_string = <<>> /\ cookies = <<>> /\ csrf_token = NoValue
    /\ pc = "idle"
    /\ NoPassYet(FALSE)

\* a variant that keeps the statistics in one dict shared by all calls
StatsCell_Shared(j) == 1

\* stats = {"total": 0, "removed": 0, "failed": 0}: a local of the call
StatsCell(j) == j

PoolFrame == UNCHANGED <<data, job_pc, job_result, emitted, calls, passes, remover_vars>>

\* the two `if vote_type in [...]` of process, and the start of remove_votes
PoolCalls(j) ==
    /\ pool[j].pc \in {"upvotes?", "downvotes?"}
    /\ LET first == pool[j].pc = "upvotes?"
           wanted == pool[j].voteType \in
                        (IF first THEN {"upvotes", "both"} ELSE {"downvotes", "both"})
       IN  IF wanted
           THEN /\ frames' = [frames EXCEPT ![StatsCell(j)] = ZeroStats]
                /\ pool' = [pool EXCEPT ![j].vote_type = IF first THEN "upvoted" ELSE "downvoted",
                                        ![j].own = ZeroStats,
                                        ![j].pc = "discover"]
           ELSE /\ frames' = frames
                /\ pool' = [pool EXCEPT ![j].pc = IF first THEN "downvotes?" ELSE "summary"]
    /\ PoolFrame

\* post_ids = self._get_voted_posts(...); stats["total"] = len(post_ids)
PoolDiscovers(j) ==
    /\ pool[j].pc = "discover"
    /\ \E ids \in SUBSET Posts :
        /\ frames' = [frames EXCEPT ![StatsCell(j)].total = Cardinality(ids)]
        /\ pool' = [pool EXCEPT ![j].todo = ids,
                                ![j].own = [ZeroStats EXCEPT !.total = Cardinality(ids)],
                                ![j].pc = IF NothingFound(ids) THEN "return" ELSE "nominal"]
    /\ PoolFrame

PoolVotesNominal(j) ==
    /\ pool[j].pc = "nominal"
    /\ \E p \in NextItems(pool[j].todo) :
       \E outcome \in OutcomesFor(pool[j].csrf_token) :
        pool' = [pool EXCEPT ![j].current = p,
                             ![j].todo = @ \ {p},
                             ![j].first_ok = VoteReturn(pool[j].csrf_token, outcome),
                             ![j].pc = "clear"]
    /\ UNCHANGED frames
    /\ PoolFrame

PoolVotesClear(j) ==
    /\ pool[j].pc = "clear"
    /\ \E outcome \in OutcomesFor(pool[j].csrf_token) :
        LET ok == VoteReturn(pool[j].csrf_token, outcome)
        IN  /\ frames' = [frames EXCEPT ![StatsCell(j)] = CountItem(@, pool[j].first_ok, ok)]
            /\ pool' = [pool EXCEPT ![j].own = IF ok THEN [@ EXCEPT !.removed = @ + 1]
                                                      ELSE [@ EXCEPT !.failed = @ + 1],
                                    ![j].pc = IF LoopExhausted(pool[j].todo, ok)
                                              THEN "return" ELSE "nominal"]
    /\ PoolFrame

\* return stats; result = remover.remove_votes(...)
PoolReturns(j) ==
    /\ pool[j].pc = "return"
    /\ pool' = [pool EXCEPT ![j].result = KeepResult(@, frames[StatsCell(j)]),
                            ![j].returned = pool[j].own,
                            ![j].current = NoPost,
                            ![j].first_ok = FALSE,
                            ![j].pc = IF pool[j].vote_type = "upvoted"
                                      THEN "downvotes?" ELSE "summary"]
    /\ UNCHANGED frames
    /\ PoolFrame

PoolEmits(j, ev, raises, then) ==
    /\ pool' = [pool EXCEPT ![j].emitted = @ \o (IF raises THEN <<>> ELSE <<ev>>)
                                             \o ExceptEmits(raises),
                            ![j].pc = IF raises THEN "ended" ELSE then]
    /\ UNCHANGED frames
    /\ PoolFrame

PoolSendsSummary(j) ==
    /\ pool[j].pc = "summary"
    /\ \E raises \in BOOLEAN :
         PoolEmits(j, SocketEvent("progress", "All done", FinalStats(pool[j].result)),
                   raises, "complete")

PoolEmitsComplete(j) ==
    /\ pool[j].pc = "complete"
    /\ \E raises \in BOOLEAN :
         PoolEmits(j, SocketEvent("complete", "-", FinalStats(pool[j].result)),
                   raises, "ended")

\* what job j does next
PoolStep(j) ==
    \/ PoolCalls(j)
    \/ PoolDiscovers(j)
    \/ PoolVotesNominal(j)
    \/ PoolVotesClear(j)
    \/ PoolReturns(j)
    \/ PoolSendsSummary(j)
    \/ PoolEmitsComplete(j)

NextPool == \E j \in JobIds : PoolStep(j)

SpecPool == InitPool /\ [][NextPool]_vars

\* a background task that can run is run: every request of a job has a
\* timeout and every pause an end, after which the hub resumes the greenlet
SpecPoolFair == SpecPool /\ \A j \in JobIds : WF_vars(PoolStep(j))

(***************************************************************************)
(* What the logs of a pass say.                                            *)
(***************************************************************************)
\* the _vote invocations of this pass for a post and a vote state
VoteCalls(post_id, state) ==
    {k \in DOMAIN vote_log : vote_log[k].post_id = post_id /\ vote_log[k].state = state}

\* the clear (set-to-NONE) invocations, by what they returned
ClearCalls(ret) ==
    {k \in DOMAIN vote_log : vote_log[k].state = "NONE" /\ vote_log[k].ret = ret}

\* the requests that reached the mutation endpoint for a post and a vote state
PostRequests(post_id, state) ==
    {k \in DOMAIN io : io[k].op = "POST" /\ io[k].post_id = post_id /\ io[k].state = state}

ResolverRequests == {k \in DOMAIN io : io[k].op = "GET" /\ io[k].by = "resolver"}

ItemEvents == {k \in DOMAIN events : events[k].post_id # NoPost}

EventsOf(kind) == {k \in DOMAIN events : events[k].message.kind = kind}

\* the first answer of the listing endpoint in this pass
FirstAnswer == IF io # <<>> THEN io[1].outcome ELSE "-"

\* the last answer of the listing endpoint to discovery
LastDiscoveryAnswer ==
    LET gets == {k \in DOMAIN io : io[k].op = "GET" /\ io[k].by = "discovery"}
    IN  IF gets = {} THEN "-"
        ELSE io[CHOOSE k \in gets : \A j \in gets : j <= k].outcome

(***************************************************************************)
(* C1: when a pass has returned, removed + failed = total, and total is    *)
(* the number of distinct identifiers discovery returned.                  *)
(***************************************************************************)
C1_StatsAddUp ==
    pc = "done" =>
        /\ result.removed + result.failed = result.total
        /\ result.total = Cardinality(post_ids)

C1_Witness ==
    /\ pc = "done"
    /\ result.total = 2
    /\ result.removed = 1
    /\ result.failed = 1

(***************************************************************************)
(* C2: discovery asks for no more pages than the remote has distinct       *)
(* pages: while the pagination loop runs, the page requests sent do not    *)
(* outnumber the distinct pages served.                                    *)
(***************************************************************************)
C2_RequestsWithinDistinctPages ==
    pc = "fetch" => PageRequests <= Cardinality(PagesServed)

(***************************************************************************)
(* C3: an identifier seen on two different pages of one discovery is in    *)
(* the discovery result, counts once in total, and gets at most one        *)
(* set-to-nominal and one set-to-NONE call in the pass.                    *)
(***************************************************************************)
C3_RepeatedIdCountedOnce ==
    /\ pc = "discovered" => repeated \subseteq post_ids
    /\ pc \notin {"idle", "fetch", "discovered"} => stats.total = Cardinality(post_ids)
    /\ \A p \in Posts :
        /\ Cardinality(VoteCalls(p, NominalState(vote_type))) <= 1
        /\ Cardinality(VoteCalls(p, "NONE")) <= 1

(***************************************************************************)
(* C4: a remover whose cookie string gave no csrf_token cookie sends       *)
(* nothing to the mutation endpoint, every _vote returns False, no         *)
(* exception leaves the pass, and a pass that found posts returns          *)
(* removed = 0 and failed = total.                                         *)
(***************************************************************************)
C4_NoTokenNoMutation ==
    JarGet(SetCookies(cookie_string), CsrfName) = NoValue =>
        /\ MutationRequests = {}
        /\ \A k \in DOMAIN vote_log : ~vote_log[k].ret /\ ~vote_log[k].sent
        /\ pc # "raised"
        /\ (pc = "done" /\ post_ids # {}) =>
              /\ result.removed = 0
              /\ result.failed = result.total
              /\ result.total = Cardinality(post_ids)

C4_Witness ==
    /\ JarGet(SetCookies(cookie_string), CsrfName) = NoValue
    /\ pc = "done"
    /\ Len(vote_log) = 4
    /\ result = [total |-> 2, removed |-> 0, failed |-> 2]

(***************************************************************************)
(* C5: when the first discovery request is answered "not found", nothing   *)
(* else is requested (no mutation call, no permalink fetch), the pass      *)
(* returns all-zero statistics, and a callback is invoked exactly once,    *)
(* with status "warning".                                                  *)
(***************************************************************************)
C5_NotFoundFirstPage ==
    FirstAnswer = "not_found" =>
        /\ Len(io) = 1
        /\ vote_log = <<>>
        /\ pc \in {"discovered", "done"}
        /\ pc = "done" =>
              /\ result = ZeroStats
              /\ progress_callback = "callable" =>
                    /\ Len(events) = 1
                    /\ events[1].status = "warning"
                    /\ events[1].stats = ZeroStats

C5_Witness ==
    /\ FirstAnswer = "not_found"
    /\ pc = "done"
    /\ progress_callback = "callable"
    /\ Len(events) = 1

(***************************************************************************)
(* C6: the counters follow the clear calls alone: removed is the number of *)
(* set-to-NONE calls that returned True, failed the number that returned   *)
(* False, whatever the set-to-nominal calls returned.                      *)
(***************************************************************************)
C6_ClearCallDecides ==
    /\ stats.removed = Cardinality(ClearCalls(TRUE))
    /\ stats.failed = Cardinality(ClearCalls(FALSE))
    /\ pc = "done" => result.removed = Cardinality(ClearCalls(TRUE))

\* one post whose nominal call failed and whose clear call was acknowledged,
\* another the other way round
C6_Witness ==
    /\ pc = "done"
    /\ Len(vote_log) = 4
    /\ ~vote_log[1].ret /\ vote_log[2].ret
    /\ vote_log[3].ret /\ ~vote_log[4].ret
    /\ result = [total |-> 2, removed |-> 1, failed |-> 1]

(***************************************************************************)
(* C7: a pass with a callback that found N > 0 posts and has returned      *)
(* delivered exactly N per-item events, one per discovered post with the   *)
(* success flag of its clear call, then one final summary as the last      *)
(* event; every post got both mutation attempts.  On the way no item event *)
(* is missing for a post whose clear call was made.                        *)
(***************************************************************************)
C7_EventsPerItemThenSummary ==
    /\ (progress_callback = "callable" /\ pc \in {"vote_nominal", "finish", "done"}) =>
          /\ Cardinality(ItemEvents) = Cardinality(ClearCalls(TRUE) \cup ClearCalls(FALSE))
          /\ \A k \in ItemEvents :
                \E c \in VoteCalls(events[k].post_id, "NONE") :
                    events[k].success = (IF vote_log[c].ret THEN "True" ELSE "False")
    /\ (progress_callback = "callable" /\ pc = "done" /\ post_ids # {}) =>
          /\ Cardinality(ItemEvents) = Cardinality(post_ids)
          /\ {events[k].post_id : k \in ItemEvents} = post_ids
          /\ EventsOf("Finished") = {Len(events)}
          /\ \A k \in ItemEvents : k < Len(events)
          /\ \A p \in post_ids :
                /\ Cardinality(VoteCalls(p, NominalState(vote_type))) = 1
                /\ Cardinality(VoteCalls(p, "NONE")) = 1

\* the first item failed, the second was still attempted and reported
C7_Witness ==
    /\ pc = "done"
    /\ progress_callback = "callable"
    /\ Len(events) = 4
    /\ events[2].success = "False"
    /\ events[3].success = "True"
    /\ events[4].message.kind = "Finished"

(***************************************************************************)
(* C8: an exception of the callback never leaves remove_votes, and a pass  *)
(* in which the callback raised makes the mutation calls and returns the   *)
(* statistics that the answers of the remote alone determine.              *)
(***************************************************************************)
C8_CallbackExceptionsSwallowed ==
    /\ pc # "raised"
    /\ (cb_raised # {} /\ pc = "done") =>
          /\ result = [total |-> Cardinality(post_ids),
                       removed |-> Cardinality(ClearCalls(TRUE)),
                       failed |-> Cardinality(ClearCalls(FALSE))]
          /\ Len(vote_log) = 2 * Cardinality(post_ids)
          /\ \A p \in post_ids :
                /\ Cardinality(VoteCalls(p, NominalState(vote_type))) = 1
                /\ Cardinality(VoteCalls(p, "NONE")) = 1

C8_Witness ==
    /\ pc = "done"
    /\ cb_raised = {"Processing", "ok", "failed", "Finished"}
    /\ result = [total |-> 2, removed |-> 1, failed |-> 1]

\* the callback raised at the warning of an empty pass
C8_WitnessWarning ==
    /\ pc = "done"
    /\ cb_raised = {"No posts found"}
    /\ result = ZeroStats

(***************************************************************************)
(* C9 (faithful remote): a pass called right after a pass of the same vote *)
(* type that left the listing empty calls the mutation endpoint not once   *)
(* and returns total = 0.                                                  *)
(***************************************************************************)
C9_SecondPassFindsNothing ==
    second_run # "no" =>
        /\ vote_log = <<>>
        /\ MutationRequests = {}
        /\ pc \in {"fetch", "discovered", "done"}
        /\ pc = "done" => result = ZeroStats

C9_Witness ==
    /\ second_run = "after a clearing pass"
    /\ pc = "done"
    /\ FirstAnswer = "ok"
    /\ result = ZeroStats

(***************************************************************************)
(* C10: when discovery returns because a page after the first was not      *)
(* served (any answer other than a page body), it returns everything it    *)
(* had accumulated.                                                        *)
(***************************************************************************)
C10_LaterFailureKeepsProgress ==
    (pc = "discovered" /\ FirstAnswer = "ok" /\ LastDiscoveryAnswer # "ok") =>
        post_ids = all_post_ids

(***************************************************************************)
(* What a job has emitted.                                                 *)
(***************************************************************************)
Emitted(name) == {k \in DOMAIN emitted : emitted[k].event = name}

(***************************************************************************)
(* C11: in a 'both' job the upvoted pass has returned, with two mutation   *)
(* calls made for each identifier it found and its last event delivered,   *)
(* before the downvoted pass sends anything; and the 'All done' progress   *)
(* event and the 'complete' event of the job carry the statistics the      *)
(* downvoted pass returned, not those of the upvoted pass.                 *)
(***************************************************************************)
C11_UpvotedPassThenDownvotedStats ==
    JobVoteType = "both" =>
        /\ job_pc = "upvoted" => passes = <<>> /\ vote_type = "upvoted"
        /\ job_pc = "downvoted" =>
              /\ vote_type = "downvoted"
              /\ Len(passes) = 1
              /\ passes[1].vote_type = "upvoted"
              /\ passes[1].votes = 2 * passes[1].result.total
              /\ passes[1].last_event = IF passes[1].result.total = 0
                                        THEN "No posts found" ELSE "Finished"
        /\ \A k \in Emitted("progress") \cup Emitted("complete") :
              /\ Len(passes) = 2
              /\ passes[2].vote_type = "downvoted"
              /\ emitted[k].stats = passes[2].result

C11_Witness ==
    /\ JobVoteType = "both"
    /\ job_pc = "ended"
    /\ Len(emitted) = 2
    /\ emitted[1].event = "progress"
    /\ emitted[2].event = "complete"
    /\ passes[1].result = [total |-> 2, removed |-> 1, failed |-> 1]
    /\ passes[2].result = [total |-> 1, removed |-> 1, failed |-> 0]

(***************************************************************************)
(* C12: a job emits at most one of 'error' and 'complete', nothing after   *)
(* either; a job that has ended has emitted exactly one of them; and the   *)
(* 'error' of a started job carries the fixed generic message (an          *)
(* exception left the try block, so no 'complete' was emitted).            *)
(***************************************************************************)
C12_ExactlyOneOfErrorAndComplete ==
    LET last == Emitted("error") \cup Emitted("complete")
    IN  /\ Cardinality(last) <= 1
        /\ \A k \in last : k = Len(emitted) /\ job_pc \in {"ended", "rejected"}
        /\ job_pc = "ended" => Cardinality(last) = 1
        /\ \A k \in Emitted("error") :
              emitted[k].message = IF job_pc = "rejected" THEN MissingFields
                                   ELSE GenericError

\* the emit of 'complete' raised: the summary went out, then the error event
C12_Witness ==
    /\ job_pc = "ended"
    /\ calls = 2
    /\ Len(emitted) = 2
    /\ emitted[1].event = "progress"
    /\ emitted[2] = SocketEvent("error", GenericError, ZeroStats)

(***************************************************************************)
(* C13: a job that reports completion has made one or two remove_votes     *)
(* calls, whatever the vote-type selector of its payload.                  *)
(***************************************************************************)
C13_OneOrTwoCalls ==
    Emitted("complete") # {} => calls \in {1, 2}

(***************************************************************************)
(* C14: the jar built from a cookie string holds, for each name that is    *)
(* the trimmed text before the first "=" of a semicolon-separated segment, *)
(* the trimmed text after that "=" (of the last such segment when a name   *)
(* recurs), and nothing else: segments without "=" leave no cookie.        *)
(* "a=1; b=2=2; malformed" gives exactly a = "1" and b = "2=2".            *)
(***************************************************************************)
\* the positions that delimit the segments of s
SegmentEnds(s) == {0, Len(s) + 1} \cup {k \in DOMAIN s : s[k] = ";"}

\* <<lo, hi>>: a segment is the text strictly between two neighbouring delimiters
Segments(s) ==
    {b \in SegmentEnds(s) \X SegmentEnds(s) :
        b[1] < b[2] /\ \A k \in SegmentEnds(s) : ~(b[1] < k /\ k < b[2])}

Equals(s, b) == {k \in (b[1] + 1)..(b[2] - 1) : s[k] = "="}

Least(S) == CHOOSE k \in S : \A j \in S : k <= j

Greatest(S) == CHOOSE k \in S : \A j \in S : j <= k

\* s[lo..hi] without the blanks at its two ends
Trimmed(s, lo, hi) ==
    LET inked == {k \in lo..hi : s[k] # " "}
    IN  IF inked = {} THEN <<>> ELSE SubSeq(s, Least(inked), Greatest(inked))

SegmentName(s, b) == Trimmed(s, b[1] + 1, Least(Equals(s, b)) - 1)

SegmentValue(s, b) == Trimmed(s, Least(Equals(s, b)) + 1, b[2] - 1)

\* the segments that hold "=" and have the given name
SegmentsNamed(s, name) ==
    {b \in Segments(s) : Equals(s, b) # {} /\ SegmentName(s, b) = name}

C14_CookieParsing ==
    pc # "constructing" =>
        /\ \A b \in Segments(cookie_string) :
              Equals(cookie_string, b) # {} =>
                  LET name == SegmentName(cookie_string, b)
                      last == CHOOSE c \in SegmentsNamed(cookie_string, name) :
                                  \A d \in SegmentsNamed(cookie_string, name) : d[1] <= c[1]
                  IN  /\ Cardinality({k \in DOMAIN cookies : cookies[k][1] = name}) = 1
                      /\ JarGet(cookies, name) = SegmentValue(cookie_string, last)
        /\ \A k \in DOMAIN cookies : SegmentsNamed(cookie_string, cookies[k][1]) # {}
        /\ cookie_string = CookiesWithoutToken =>
              cookies = << <<<<"a">>, <<"1">>>>, <<<<"b">>, <<"2", "=", "2">>>> >>

C14_Witness ==
    /\ pc = "idle"
    /\ cookie_string = CookiesWithoutToken
    /\ cookies = << <<<<"a">>, <<"1">>>>, <<<<"b">>, <<"2", "=", "2">>>> >>

\* "a=;a=a": a name set twice keeps the later value
C14_WitnessRepeatedName ==
    /\ pc = "idle"
    /\ cookie_string = <<"a", "=", ";", "a", "=", "a">>
    /\ cookies = << <<<<"a">>, <<"a">>>> >>

(***************************************************************************)
(* C15: a page response that has no cursor, or the cursor its own request  *)
(* was made with, or no identifier that was not accumulated already, is    *)
(* the last page requested (so a discovery that goes on has got a new      *)
(* cursor and at least one new identifier), and when discovery stops at a  *)
(* page its result holds that page's identifiers with the earlier ones.    *)
(***************************************************************************)
C15_StopRule ==
    [][(pc = "fetch" /\ PageRequests' = PageRequests + 1 /\ LastDiscoveryAnswer' = "ok") =>
          /\ pc' = "fetch" =>
                /\ after' # NoCursor
                /\ after' # after
                /\ all_post_ids' # all_post_ids
          /\ pc' = "discovered" =>
                /\ all_post_ids \subseteq all_post_ids'
                /\ post_ids' = all_post_ids']_vars

(***************************************************************************)
(* C16: the Accept header has the HTML value only while _get_voted_posts   *)
(* is running; however discovery returns, the header is back to the value  *)
(* it had at entry, and every request to the mutation endpoint carries the *)
(* JSON value.                                                             *)
(***************************************************************************)
C16_AcceptOverrideScoped ==
    /\ pc = "fetch" => accept = HtmlAccept /\ original_accept = JsonAccept
    /\ pc \notin {"fetch", "constructing"} => accept = original_accept
    /\ \A k \in DOMAIN io :
          /\ (io[k].op = "GET" /\ io[k].by = "discovery") => io[k].accept = HtmlAccept
          /\ io[k].op = "POST" => io[k].accept = JsonAccept

\* discovery left through the except clause, and mutation calls followed
C16_Witness ==
    /\ pc = "done"
    /\ LastDiscoveryAnswer \in GetFailures
    /\ Cardinality(MutationRequests) = 4

(***************************************************************************)
(* C17: with a request token, what a pass sends to the mutation endpoint   *)
(* is, item after item, one call with the nominal state for an identifier  *)
(* of the discovery result, the 0.3 s pause, one call with NONE for the    *)
(* same identifier, and then (backend) a pause of max(0.3, delay) unless   *)
(* the item is the last; no identifier has two items, and when the pass    *)
(* has returned every discovered identifier has had its item.              *)
(***************************************************************************)
\* the mutation calls and the pauses of the loop, in order
LoopTrace ==
    SelectSeq(io, LAMBDA e : e.op = "POST" \/ (e.op = "sleep" /\ e.by = "remove_votes"))

C17_ToggleThenClear ==
    (Truthy(csrf_token) /\ pc \notin {"vote_clear", "constructing"}) =>
        LET trace == LoopTrace
            items == (Len(trace) + 1) \div 4
        IN  /\ Cardinality(MutationRequests) = 2 * items
            /\ Len(trace) \in {4 * items, 4 * items - 1}
            /\ \A j \in 1..items :
                  /\ trace[4 * j - 3].op = "POST"
                  /\ trace[4 * j - 3].state = NominalState(vote_type)
                  /\ trace[4 * j - 3].post_id \in post_ids
                  /\ trace[4 * j - 2].op = "sleep" /\ trace[4 * j - 2].dur = MinDelay
                  /\ trace[4 * j - 1].op = "POST"
                  /\ trace[4 * j - 1].state = "NONE"
                  /\ trace[4 * j - 1].post_id = trace[4 * j - 3].post_id
                  /\ \A k \in 1..items :
                        trace[4 * k - 3].post_id = trace[4 * j - 3].post_id => k = j
                  /\ j < Cardinality(post_ids) =>
                        /\ Len(trace) >= 4 * j
                        /\ trace[4 * j].op = "sleep"
                        /\ variant = "backend" =>
                              trace[4 * j].dur = IF delay > MinDelay THEN delay ELSE MinDelay
            /\ pc = "done" => Len(trace) = 4 * Cardinality(post_ids) - 1 \/ post_ids = {}

\* two items with a delay under the floor: seven entries, the fourth the pause
C17_Witness ==
    /\ variant = "backend"
    /\ Truthy(csrf_token)
    /\ pc = "done"
    /\ delay < MinDelay
    /\ Len(LoopTrace) = 7
    /\ LoopTrace[4].dur = MinDelay

(***************************************************************************)
(* C18, as stated: of two identifiers of the discovery result, the one     *)
(* discovery met first has a mutation call before any call for the other.  *)
(***************************************************************************)
C18_DiscoveryOrder ==
    \A j, k \in DOMAIN first_seen :
        (j < k /\ first_seen[j] \in post_ids /\ first_seen[k] \in post_ids) =>
            \A m \in DOMAIN vote_log :
                vote_log[m].post_id = first_seen[k] =>
                    \E n \in 1..(m - 1) : vote_log[n].post_id = first_seen[j]

(***************************************************************************)
(* C18, amended: the loop takes the identifiers of the discovery result    *)
(* one at a time, in an order of its own: the calls come in pairs (nominal *)
(* state, then NONE) for one identifier, no identifier has two pairs, and  *)
(* the k-th pair is followed, before the next pair begins, by the item     *)
(* event that reports the same identifier with index k.                    *)
(***************************************************************************)
C18_OneItemAtATime ==
    /\ \A m \in DOMAIN vote_log :
          /\ vote_log[m].post_id \in post_ids
          /\ vote_log[m].state = IF m % 2 = 1 THEN NominalState(vote_type) ELSE "NONE"
          /\ m % 2 = 0 => vote_log[m].post_id = vote_log[m - 1].post_id
          /\ \A n \in DOMAIN vote_log :
                vote_log[n].post_id = vote_log[m].post_id => (n + 1) \div 2 = (m + 1) \div 2
    /\ progress_callback = "callable" =>
          /\ Cardinality(ItemEvents) = Len(vote_log) \div 2
          /\ \A k \in 1..(Len(vote_log) \div 2) :
                /\ events[k + 1].post_id = vote_log[2 * k].post_id
                /\ events[k + 1].message.i = k

\* the identifier discovery met second was taken first
C18_Witness ==
    /\ pc = "done"
    /\ progress_callback = "callable"
    /\ Len(first_seen) = 2
    /\ Len(vote_log) = 4
    /\ vote_log[1].post_id = first_seen[2]
    /\ vote_log[3].post_id = first_seen[1]
    /\ events[2].post_id = first_seen[2]

(***************************************************************************)
(* C19 (backend): a pass whose discovery found something re-fetches the    *)
(* listing exactly once, before the first mutation call, and a pass that   *)
(* found nothing not at all; whatever that request brings (an exception,   *)
(* a status other than 200, anchors for some identifiers or for none) the  *)
(* pass makes the two mutation calls for every identifier and returns the  *)
(* statistics their results determine; and every per-item event carries a *)
(* URL, the permalink resolved for its identifier if there is one, else    *)
(* "https://www.reddit.com/comments/" followed by the identifier without   *)
(* its three-character prefix.                                             *)
(***************************************************************************)
C19_PermalinksInvisible ==
    variant = "backend" =>
        /\ Cardinality(ResolverRequests) =
              IF pc \in {"vote_nominal", "vote_clear", "finish", "done"} /\ post_ids # {}
              THEN 1 ELSE 0
        /\ \A k \in ResolverRequests : \A m \in MutationRequests : k < m
        /\ \A k \in ResolverRequests : io[k].outcome # "ok" => DOMAIN post_url_map = {}
        /\ pc = "done" =>
              /\ result = [total |-> Cardinality(post_ids),
                           removed |-> Cardinality(ClearCalls(TRUE)),
                           failed |-> Cardinality(ClearCalls(FALSE))]
              /\ \A p \in post_ids :
                    /\ Cardinality(VoteCalls(p, NominalState(vote_type))) = 1
                    /\ Cardinality(VoteCalls(p, "NONE")) = 1
        /\ \A k \in ItemEvents :
              LET p == events[k].post_id
              IN  /\ events[k].url # NoUrl
                  /\ events[k].url =
                        IF p \in DOMAIN post_url_map THEN post_url_map[p]
                        ELSE <<"https://www.reddit.com/comments/">> \o SubSeq(p, 2, Len(p))

\* two items, one with a resolved permalink and one with the fallback URL
C19_Witness ==
    /\ variant = "backend"
    /\ pc = "done"
    /\ Cardinality(ResolverRequests) = 1
    /\ Cardinality(DOMAIN post_url_map) = 1
    /\ Cardinality(ItemEvents) = 2
    /\ \E j, k \in ItemEvents :
          /\ events[j].url = Permalink(events[j].post_id)
          /\ events[k].url = FallbackUrl(events[k].post_id)

\* the re-fetch raised: both items carry the fallback URL
C19_WitnessFailedFetch ==
    /\ variant = "backend"
    /\ pc = "done"
    /\ \E k \in ResolverRequests : io[k].outcome = "exception"
    /\ Cardinality(ItemEvents) = 2
    /\ \A k \in ItemEvents : events[k].url = FallbackUrl(events[k].post_id)
    /\ result = [total |-> 2, removed |-> 2, failed |-> 0]

(***************************************************************************)
(* C20: of two jobs running concurrently, each has, at every point of a    *)
(* pass, statistics that count its own identifiers and its own clear       *)
(* results only; what it returns and what it reports in 'All done' and     *)
(* 'complete' are its own last pass's counts; a job without a token never  *)
(* counts a removal, whatever the other job holds; and when one job has    *)
(* ended with an exception the other still runs to its end, which is its   *)
(* own 'complete' unless an emit of its own raises.                        *)
(***************************************************************************)
OwnStatistics(j) ==
    /\ pool[j].pc \in {"nominal", "clear", "return"} => frames[j] = pool[j].own
    /\ pool[j].result # EmptyDict => pool[j].result = pool[j].returned
    /\ \A k \in DOMAIN pool[j].emitted :
          pool[j].emitted[k].event \in {"progress", "complete"} =>
              pool[j].emitted[k].stats = pool[j].returned
    /\ ~Truthy(pool[j].csrf_token) => pool[j].own.removed = 0

EndedInError(j) ==
    /\ pool[j].pc = "ended"
    /\ \E k \in DOMAIN pool[j].emitted : pool[j].emitted[k].event = "error"

EndedOnItsOwn(j) ==
    /\ pool[j].pc = "ended"
    /\ pool[j].emitted # <<>>
    /\ LET last == pool[j].emitted[Len(pool[j].emitted)]
       IN  \/ last = SocketEvent("complete", "-", pool[j].returned)
           \/ last = SocketEvent("error", GenericError, ZeroStats)

C21_ConsistentSnapshots ==
    progress_callback # "None" =>
      /\ \A k \in DOMAIN events : events[k].stats.total = Cardinality(post_ids)
      /\ \A k \in DOMAIN events : \A l \in DOMAIN events :
            k <= l => /\ events[k].stats.removed <= events[l].stats.removed
                      /\ events[k].stats.failed <= events[l].stats.failed
      /\ \A k \in ItemEvents :
            events[k].stats.removed + events[k].stats.failed =
                Cardinality({m \in ItemEvents : m <= k})
      /\ pc = "done" =>
            /\ events # <<>>
            /\ events[Len(events)].stats = result
            /\ result = [total |-> Cardinality(post_ids),
                         removed |-> Cardinality(ClearCalls(TRUE)),
                         failed |-> Cardinality(ClearCalls(FALSE))]

\* a pass over two posts, one cleared and one not, has returned under a
\* callback that wrote into each of the four mappings it was handed
C21_Witness ==
    /\ progress_callback = "tampering"
    /\ pc = "done"
    /\ Len(events) = 4
    /\ Cardinality(ItemEvents) = 2
    /\ events[4].stats = [total |-> 2, removed |-> 1, failed |-> 1]
    /\ result = [total |-> 2, removed |-> 1, failed |-> 1]

====
